---- MODULE Spec2Model ----
(***************************************************************************)
(* A model of the remote-care backend (src/main.py): the REST handlers     *)
(* with their rule engine over the stored tables, and the UDP video        *)
(* receiver with the MJPEG streamers over the latest-frame cache.          *)
(*                                                                         *)
(* Conventions                                                             *)
(*  - Optional[T]: None is <<>> and a present value v is <<v>>.            *)
(*  - str: a sequence of characters, each written as a short ASCII string; *)
(*    a Chinese character is written as its pinyin syllable, and the fixed *)
(*    titles and message texts are transliterated.                         *)
(*  - float measurements (temperature, humidity, light, noise, spO2) are   *)
(*    counted in halves: the integer v stands for v/2, Real(16) for 16.0.  *)
(*  - sentiment scores are counted in tenths: -6 stands for -0.6.          *)
(*  - a table is the sequence of its rows in insertion order; the integer  *)
(*    primary key of a row is its position (rows are never deleted).       *)
(*  - created_at (server clock) is not modelled: no rule reads it, and a   *)
(*    list response is modelled as the set of rows it returns.             *)
(***************************************************************************)
EXTENDS Integers, Sequences, FiniteSets, TLC

VARIABLES
    environments,   \* table "environments"
    text_logs,      \* table "text_logs"
    health_status,  \* table "health_status"
    alerts,         \* table "alerts"
    given,          \* history: the child_id each environments row was posted with
    req,            \* the request drawn for the single-request specification
    resp,           \* the last response returned by a handler
    pc,             \* per client: position inside a POST handler
    obj,            \* per client: the reading the handler has built
    derived,        \* history: alert id -> the reading it was derived from
    returned,       \* history: readings whose POST response was returned
    sock,           \* receiver: state of the UDP socket
    rpc,            \* receiver: position in _udp_receiver
    data,           \* receiver: local `data`, the datagram received
    img,            \* receiver: local `img` (a reference or None)
    _stop_flag,     \* global _stop_flag
    _latest_frame,  \* global _latest_frame (a reference or None)
    _latest_lock,   \* global _latest_lock: its holder, or Unlocked
    heap,           \* the numpy arrays: reference -> contents
    spc,            \* per streamer: position in _frame_generator
    frame,          \* per streamer: local `frame` (a reference or None)
    jpg,            \* per streamer: local `jpg`, the bytes of the chunk last sent
    published,      \* history: contents of the last completed publish
    seen            \* history per streamer: what its last snapshot saw

dbVars == <<environments, text_logs, health_status, alerts, given>>
reqVars == <<pc, obj, derived, returned>>
videoVars == <<sock, rpc, data, img, _stop_flag, _latest_frame, _latest_lock, heap,
               spc, frame, jpg, published, seen>>
vars == <<environments, text_logs, health_status, alerts, given, req, resp,
          pc, obj, derived, returned,
          sock, rpc, data, img, _stop_flag, _latest_frame, _latest_lock, heap,
          spc, frame, jpg, published, seen>>

----------------------------------------------------------------------------
(* Optional values, strings, numbers                                       *)

None == <<>>
Some(v) == <<v>>
Val(o) == o[1]

Real(x) == 2 * x

Abs(v) == IF v < 0 THEN 0 - v ELSE v

\* A formatted number is <<sign, integer part, decimal digits...>>, sign 1 for "-".
Sign(v) == IF v < 0 THEN 1 ELSE 0

\* f"{v:.1f}" of a measurement counted in halves.
Fmt1(v) == <<Sign(v), Abs(v) \div 2, (Abs(v) % 2) * 5>>

\* f"{v:.0f}" of a measurement counted in halves: round half to even.
Fmt0(v) ==
    LET a == Abs(v)
        q == a \div 2
    IN <<Sign(v), IF a % 2 = 0 THEN q ELSE IF q % 2 = 0 THEN q ELSE q + 1>>

\* f"{s:.2f}" of a score counted in tenths.
Fmt2(s) == <<Sign(s), Abs(s) \div 10, Abs(s) % 10, 0>>

\* f"{n}" of an int.
FmtInt(n) == <<Sign(n), Abs(n)>>

\* An f-string with at most one formatted number in it.
Message(text, num) == [text |-> text, num |-> num]

IsSpace(c) == c \in {" ", "\t"}

RECURSIVE lstrip(_)
lstrip(s) ==
    IF s # <<>> /\ IsSpace(Head(s)) THEN lstrip(Tail(s)) ELSE s

RECURSIVE rstrip(_)
rstrip(s) ==
    IF s # <<>> /\ IsSpace(s[Len(s)]) THEN rstrip(SubSeq(s, 1, Len(s) - 1)) ELSE s

\* str.strip()
strip(s) == rstrip(lstrip(s))

\* w in text (substring test)
Contains(text, w) ==
    \E i \in 1..(Len(text) - Len(w) + 1) : SubSeq(text, i, i + Len(w) - 1) = w

----------------------------------------------------------------------------
(* Subject identifier                                                      *)

DEFAULT_CHILD_ID == <<"d", "e", "f", "a", "u", "l", "t">>

normalize_child_id_keep_blank(child_id) ==
    IF child_id = None THEN DEFAULT_CHILD_ID ELSE strip(Val(child_id))

normalize_child_id(child_id) ==
    IF child_id = None
    THEN DEFAULT_CHILD_ID
    ELSE LET cid == strip(Val(child_id))
         IN IF cid # <<>> THEN cid ELSE DEFAULT_CHILD_ID

----------------------------------------------------------------------------
(* Rule engine                                                             *)

DefaultAcknowledged == FALSE

Alert(id, child_id, level, title, message, source) ==
    [id |-> id, child_id |-> child_id, level |-> level, title |-> title,
     message |-> message, source |-> source,
     acknowledged |-> DefaultAcknowledged]

\* create_alert appends one committed row to the alerts table `db`.
create_alert(db, child_id, level, title, message, source) ==
    Append(db, Alert(Len(db) + 1, child_id, level, title, message, source))

TITLE_TEMPERATURE == "huanjing wendu yichang"
TITLE_HUMIDITY == "shidu bushi"
TITLE_LIGHT == "guangzhao pian an"
TITLE_NOISE == "huanjing zaoyin pian da"
TITLE_MOOD == "qingxu diluo"
TITLE_HEART_RATE == "xinlv yichang"
TITLE_SPO2 == "xueyang piandi"

temperature_level_closed(t) ==
    IF t <= Real(14) \/ t >= Real(31) THEN "critical" ELSE "warn"

temperature_level(t) ==
    IF t < Real(14) \/ t > Real(31) THEN "critical" ELSE "warn"

temperature_rule(db, env) ==
    LET t == env.temperature
    IN IF t # None /\ (Val(t) < Real(16) \/ Val(t) > Real(29))
       THEN create_alert(db, env.child_id, temperature_level(Val(t)),
                         TITLE_TEMPERATURE,
                         Message("dangqian wendu {t:.1f}", Fmt1(Val(t))),
                         "environment")
       ELSE db

humidity_rule(db, env) ==
    LET h == env.humidity
    IN IF h # None /\ (Val(h) < Real(30) \/ Val(h) > Real(75))
       THEN create_alert(db, env.child_id, "warn", TITLE_HUMIDITY,
                         Message("shidu {h:.0f}%", Fmt0(Val(h))),
                         "environment")
       ELSE db

light_rule(db, env) ==
    LET lx == env.light_lux
    IN IF lx # None /\ Val(lx) < Real(50)
       THEN create_alert(db, env.child_id, "info", TITLE_LIGHT,
                         Message("guangzhao buzu", <<>>), "environment")
       ELSE db

noise_rule(db, env) ==
    LET noise == env.noise_db
    IN IF noise # None /\ Val(noise) > Real(65)
       THEN create_alert(db, env.child_id,
                         IF Val(noise) > Real(80) THEN "critical" ELSE "warn",
                         TITLE_NOISE,
                         Message("dangqian zaosheng {noise:.1f} dB", Fmt1(Val(noise))),
                         "environment")
       ELSE db

analyze_environment_first_only(db, env) ==
    LET a == temperature_rule(db, env)
        b == IF a # db THEN a ELSE humidity_rule(a, env)
        c == IF b # db THEN b ELSE light_rule(b, env)
    IN IF c # db THEN c ELSE noise_rule(c, env)

analyze_environment(db, env) ==
    noise_rule(light_rule(humidity_rule(temperature_rule(db, env), env), env), env)

neg == {<<"nan", "guo">>, <<"sheng", "qi">>, <<"hai", "pa">>, <<"fan">>,
        <<"tao", "yan">>, <<"ku">>}
pos == {<<"kai", "xin">>, <<"xi", "huan">>, <<"gao", "xing">>, <<"man", "yi">>,
        <<"fang", "song">>}

Max(a, b) == IF a > b THEN a ELSE b
Min(a, b) == IF a < b THEN a ELSE b

rule_based_sentiment_neg_wins(text) ==
    IF \E w \in neg : Contains(text, w) THEN 0 - 6
    ELSE IF \E w \in pos : Contains(text, w) THEN 6 ELSE 0

rule_based_sentiment(text) ==
    LET s0 == 0
        s1 == IF \E w \in neg : Contains(text, w) THEN s0 - 6 ELSE s0
        s2 == IF \E w \in pos : Contains(text, w) THEN s1 + 6 ELSE s1
    IN Max(0 - 10, Min(10, s2))

analyze_textlog(db, tl) ==
    LET s == IF tl.sentiment = None THEN 0 ELSE Val(tl.sentiment)
    IN IF s <= 0 - 5
       THEN create_alert(db, tl.child_id, "warn", TITLE_MOOD,
                         Message("wenben qingxu defen {s:.2f}", Fmt2(s)), "text")
       ELSE db

heart_rate_rule(db, h) ==
    LET hr == h.heart_rate
    IN IF hr # None /\ (Val(hr) < 55 \/ Val(hr) > 130)
       THEN create_alert(db, h.child_id,
                         IF Val(hr) < 45 \/ Val(hr) > 150 THEN "critical" ELSE "warn",
                         TITLE_HEART_RATE,
                         Message("dangqian xinlv {hr}", FmtInt(Val(hr))),
                         "health")
       ELSE db

spo2_level_closed(s) == IF s <= Real(90) THEN "critical" ELSE "warn"

spo2_level(s) == IF s < Real(90) THEN "critical" ELSE "warn"

spo2_rule(db, h) ==
    LET spo2 == h.spo2
    IN IF spo2 # None /\ Val(spo2) < Real(94)
       THEN create_alert(db, h.child_id, spo2_level(Val(spo2)), TITLE_SPO2,
                         Message("dangqian xueyang {spo2:.1f}%", Fmt1(Val(spo2))),
                         "health")
       ELSE db

analyze_health(db, h) == spo2_rule(heart_rate_rule(db, h), h)

----------------------------------------------------------------------------
(* Rows and responses                                                      *)

Environment(id, child_id, temperature, humidity, light_lux, noise_db) ==
    [id |-> id, child_id |-> child_id, temperature |-> temperature,
     humidity |-> humidity, light_lux |-> light_lux, noise_db |-> noise_db]

TextLog(id, child_id, content, sentiment) ==
    [id |-> id, child_id |-> child_id, content |-> content,
     sentiment |-> sentiment]

HealthStatus(id, child_id, heart_rate, spo2) ==
    [id |-> id, child_id |-> child_id, heart_rate |-> heart_rate, spo2 |-> spo2]

\* The last request served (handler and its argument) and what it returned:
\* the serialized rows, or the {"ok": ..., "msg": ...} dict.
Response(op, arg, ok, msg, rows) ==
    [op |-> op, arg |-> arg, ok |-> ok, msg |-> msg, rows |-> rows]

NoResponse == Response("none", <<>>, TRUE, "", {})

Rows(table) == {table[i] : i \in 1..Len(table)}

\* db.query(T).filter(T.child_id == cid).all()
Filter(table, cid) == {r \in Rows(table) : r.child_id = cid}

----------------------------------------------------------------------------
(* Handlers, each as one atomic request                                    *)

create_environment(item) ==
    LET child_id == normalize_child_id(item.child_id)
        o == Environment(Len(environments) + 1, child_id, item.temperature,
                         item.humidity, item.light_lux, item.noise_db)
    IN /\ environments' = Append(environments, o)
       /\ alerts' = analyze_environment(alerts, o)
       /\ given' = Append(given, item.child_id)
       /\ resp' = Response("create_environment", <<item>>, TRUE, "", {o})
       /\ UNCHANGED <<text_logs, health_status>>

list_environment(child_id) ==
    /\ resp' = Response("list_environment", child_id, TRUE, "",
                        Filter(environments, normalize_child_id(child_id)))
    /\ UNCHANGED dbVars

create_textlog(item) ==
    LET text == strip(IF item.content = None THEN <<>> ELSE Val(item.content))
        child_id == normalize_child_id(item.child_id)
        score == IF item.sentiment = None
                 THEN Some(rule_based_sentiment(text))
                 ELSE item.sentiment
        o == TextLog(Len(text_logs) + 1, child_id, text, score)
    IN IF text = <<>>
       THEN /\ resp' = Response("create_textlog", <<item>>, FALSE, "empty text", {})
            /\ UNCHANGED dbVars
       ELSE /\ text_logs' = Append(text_logs, o)
            /\ alerts' = analyze_textlog(alerts, o)
            /\ resp' = Response("create_textlog", <<item>>, TRUE, "", {o})
            /\ UNCHANGED <<environments, health_status, given>>

list_textlog(child_id) ==
    /\ resp' = Response("list_textlog", child_id, TRUE, "",
                        Filter(text_logs, normalize_child_id(child_id)))
    /\ UNCHANGED dbVars

list_alerts(child_id) ==
    /\ resp' = Response("list_alerts", child_id, TRUE, "",
                        Filter(alerts, normalize_child_id(child_id)))
    /\ UNCHANGED dbVars

ack_alert_first_row(aid) ==
    IF alerts = <<>>
    THEN /\ resp' = Response("ack_alert", <<aid>>, FALSE, "not found", {})
         /\ UNCHANGED dbVars
    ELSE /\ alerts' = [alerts EXCEPT ![Min(Max(aid, 1), Len(alerts))].acknowledged = TRUE]
         /\ resp' = Response("ack_alert", <<aid>>, TRUE, "", {})
         /\ UNCHANGED <<environments, text_logs, health_status, given>>

ack_alert_toggle(aid) ==
    IF aid \notin 1..Len(alerts)
    THEN /\ resp' = Response("ack_alert", <<aid>>, FALSE, "not found", {})
         /\ UNCHANGED dbVars
    ELSE /\ alerts' = [alerts EXCEPT ![aid].acknowledged = ~alerts[aid].acknowledged]
         /\ resp' = Response("ack_alert", <<aid>>, TRUE, "", {})
         /\ UNCHANGED <<environments, text_logs, health_status, given>>

ack_alert(aid) ==
    IF aid \notin 1..Len(alerts)
    THEN /\ resp' = Response("ack_alert", <<aid>>, FALSE, "not found", {})
         /\ UNCHANGED dbVars
    ELSE /\ alerts' = [alerts EXCEPT ![aid].acknowledged = TRUE]
         /\ resp' = Response("ack_alert", <<aid>>, TRUE, "", {})
         /\ UNCHANGED <<environments, text_logs, health_status, given>>

create_health(item) ==
    LET child_id == normalize_child_id(item.child_id)
        o == HealthStatus(Len(health_status) + 1, child_id, item.heart_rate,
                          item.spo2)
    IN /\ health_status' = Append(health_status, o)
       /\ alerts' = analyze_health(alerts, o)
       /\ resp' = Response("create_health", <<item>>, TRUE, "", {o})
       /\ UNCHANGED <<environments, text_logs, given>>

list_health(child_id) ==
    /\ resp' = Response("list_health", child_id, TRUE, "",
                        Filter(health_status, normalize_child_id(child_id)))
    /\ UNCHANGED dbVars

----------------------------------------------------------------------------
(* Bounds and the inputs the requests are drawn from                       *)

MaxReadings == 2     \* readings stored over the three tables
NumClients == 2      \* concurrent POST handlers
NumStreamers == 2    \* concurrent /video streams

C1 == <<"c", "1">>

ChildIds == {None, Some(<<>>), Some(<<" ">>), Some(C1), Some(<<" ">> \o C1 \o <<"\t">>),
             Some(DEFAULT_CHILD_ID), Some(<<" ">> \o DEFAULT_CHILD_ID)}

Around(x) == {Real(x) - 1, Real(x), Real(x) + 1}

Opt(S) == {None} \cup {Some(v) : v \in S}

TemperatureIn == Opt(Around(14) \cup Around(16) \cup {Real(22)} \cup Around(29)
                     \cup Around(31) \cup {Real(32)})
HumidityIn == Opt({Real(30) - 1, Real(30), Real(75), Real(75) + 1})
LightIn == Opt({Real(50) - 1, Real(50)})
NoiseIn == Opt({Real(65), Real(65) + 1, Real(80), Real(80) + 1})

EnvironmentIn ==
    [child_id : {None, Some(C1)}, temperature : TemperatureIn,
     humidity : HumidityIn, light_lux : LightIn, noise_db : NoiseIn]

Texts ==
    {<<>>, <<" ">>,
     <<"wo", "hen", "nan", "guo">>, <<"wo", "hen", "kai", "xin">>,
     <<"nan", "guo", "kai", "xin">>, <<"kai", "xin", "ku">>,
     <<" ", "fan", " ">>, <<"nan", " ", "guo">>, <<"guo", "nan">>,
     <<"wo", "hen", "hao">>, <<"1">>}

TextLogIn ==
    [child_id : {None, Some(C1)}, content : Opt(Texts),
     sentiment : Opt({0 - 20, 0 - 10, 0 - 6, 0 - 5, 0 - 4, 0, 6})]

HealthIn ==
    [child_id : {None, Some(C1)},
     heart_rate : Opt({44, 45, 54, 55, 90, 130, 131, 150, 151}),
     spo2 : Opt(Around(90) \cup Around(94) \cup {Real(85), Real(98)})]

Requests ==
    {[op |-> "create_environment", item |-> i] : i \in EnvironmentIn}
    \cup {[op |-> "create_textlog", item |-> i] : i \in TextLogIn}
    \cup {[op |-> "create_health", item |-> i] : i \in HealthIn}

NoRequest == [op |-> "none", item |-> [child_id |-> None]]

\* The requests of the multi-request specifications: few values, every subject id.
PostChildIds == {None, Some(<<" ">>), Some(C1), Some(<<" ">> \o DEFAULT_CHILD_ID)}

StoreEnvironmentIn ==
    [child_id : PostChildIds, temperature : {Some(Real(22)), Some(Real(32))},
     humidity : {None}, light_lux : {None}, noise_db : {None}]

StoreTextLogIn ==
    [child_id : {None, Some(C1)},
     content : {Some(<<"nan", "guo">>), Some(<<" ">>)},
     sentiment : {None}]

StoreHealthIn ==
    [child_id : {None, Some(C1)}, heart_rate : {None},
     spo2 : {Some(Real(85)), Some(Real(98))}]

NumReadings == Len(environments) + Len(text_logs) + Len(health_status)

----------------------------------------------------------------------------
(* Initial state: empty tables (create_all), receiver started (_on_startup) *)

Clients == 1..NumClients
Streamers == 1..NumStreamers
Refs == 1..(NumStreamers + 2)

FRAME_SIZE == <<360, 640>>

Free == [shape |-> <<0, 0>>, pixels |-> <<"", "">>]
Unlocked == <<>>
NoDatagram == [kind |-> "none", image |-> "", shape |-> <<0, 0>>]
NoBytes == [kind |-> "none", pixels |-> <<"", "">>]

InitDb ==
    /\ environments = <<>>
    /\ text_logs = <<>>
    /\ health_status = <<>>
    /\ alerts = <<>>
    /\ given = <<>>
    /\ resp = NoResponse

InitReq ==
    /\ pc = [c \in Clients |-> "idle"]
    /\ obj = [c \in Clients |-> [table |-> "none", row |-> [id |-> 0]]]
    /\ derived = <<>>
    /\ returned = {}

InitVideo ==
    /\ sock = "open"
    /\ rpc = "while"
    /\ data = NoDatagram
    /\ img = None
    /\ _stop_flag = FALSE
    /\ _latest_frame = None
    /\ _latest_lock = Unlocked
    /\ heap = [r \in Refs |-> Free]
    /\ spc = [s \in Streamers |-> "acquire"]
    /\ frame = [s \in Streamers |-> None]
    /\ jpg = [s \in Streamers |-> NoBytes]
    /\ published = None
    /\ seen = [s \in Streamers |-> None]

Init == InitDb /\ InitReq /\ InitVideo /\ req = NoRequest

----------------------------------------------------------------------------
(* Spec: any sequence of whole requests against the tables                 *)

PostEnvironment ==
    /\ NumReadings < MaxReadings
    /\ \E item \in StoreEnvironmentIn : create_environment(item)
    /\ UNCHANGED <<req, reqVars, videoVars>>

PostTextlog ==
    /\ NumReadings < MaxReadings
    /\ \E item \in StoreTextLogIn : create_textlog(item)
    /\ UNCHANGED <<req, reqVars, videoVars>>

PostHealth ==
    /\ NumReadings < MaxReadings
    /\ \E item \in StoreHealthIn : create_health(item)
    /\ UNCHANGED <<req, reqVars, videoVars>>

GetEnvironment ==
    /\ \E child_id \in ChildIds : list_environment(child_id)
    /\ UNCHANGED <<req, reqVars, videoVars>>

GetTextlog ==
    /\ \E child_id \in ChildIds : list_textlog(child_id)
    /\ UNCHANGED <<req, reqVars, videoVars>>

GetHealth ==
    /\ \E child_id \in ChildIds : list_health(child_id)
    /\ UNCHANGED <<req, reqVars, videoVars>>

GetAlerts ==
    /\ \E child_id \in ChildIds : list_alerts(child_id)
    /\ UNCHANGED <<req, reqVars, videoVars>>

PostAck ==
    /\ \E aid \in 0..(Len(alerts) + 1) : ack_alert(aid)
    /\ UNCHANGED <<req, reqVars, videoVars>>

Next ==
    \/ PostEnvironment
    \/ PostTextlog
    \/ PostHealth
    \/ GetEnvironment
    \/ GetTextlog
    \/ GetHealth
    \/ GetAlerts
    \/ PostAck

Spec == Init /\ [][Next]_vars

----------------------------------------------------------------------------
(* SpecRules: one request, drawn from the full input sets, on a fresh store *)

InitRules == InitDb /\ InitReq /\ InitVideo /\ req \in Requests

Serve(op, handler) ==
    /\ req.op = op
    /\ handler
    /\ req' = NoRequest
    /\ UNCHANGED <<reqVars, videoVars>>

ServeEnvironment == Serve("create_environment", create_environment(req.item))
ServeTextlog == Serve("create_textlog", create_textlog(req.item))
ServeHealth == Serve("create_health", create_health(req.item))

NextRules == ServeEnvironment \/ ServeTextlog \/ ServeHealth

SpecRules == InitRules /\ [][NextRules]_vars

----------------------------------------------------------------------------
(* SpecReq: POST handlers of concurrent clients, one step per commit       *)

ReqEnvironmentIn ==
    [child_id : {None, Some(C1)}, temperature : {Some(Real(32))},
     humidity : {None}, light_lux : {None, Some(Real(10))}, noise_db : {None}]

ReqTextLogIn ==
    [child_id : {None}, content : {Some(<<"nan", "guo">>), Some(<<" ">>)},
     sentiment : {None}]

ReqHealthIn ==
    [child_id : {Some(C1)}, heart_rate : {None},
     spo2 : {Some(Real(85)), Some(Real(98))}]

NoReading == [table |-> "none", row |-> [id |-> 0]]
Reading(table, row) == [table |-> table, row |-> row]

\* The history of the alerts `db2` has on top of `db`: each derives from `reading`.
Derive(db, db2, reading) ==
    derived \o [i \in 1..(Len(db2) - Len(db)) |-> <<reading.table, reading.row.id>>]

\* One rule of the evaluation: it may commit one alert (create_alert), which
\* makes the alerts table `db2`.
RuleStep(c, at, db2, goto) ==
    /\ pc[c] = at
    /\ alerts' = db2
    /\ derived' = Derive(alerts, alerts', obj[c])
    /\ pc' = [pc EXCEPT ![c] = goto]
    /\ UNCHANGED <<environments, text_logs, health_status, given, resp, obj,
                   returned>>

env_commit_respond_first(c, item) ==
    LET child_id == normalize_child_id(item.child_id)
        o == Environment(Len(environments) + 1, child_id, item.temperature,
                         item.humidity, item.light_lux, item.noise_db)
    IN /\ pc[c] = "idle"
       /\ environments' = Append(environments, o)
       /\ given' = Append(given, item.child_id)
       /\ obj' = [obj EXCEPT ![c] = Reading("environments", o)]
       /\ pc' = [pc EXCEPT ![c] = "temperature"]
       /\ resp' = Response("create_environment", <<>>, TRUE, "", {o})
       /\ returned' = returned \cup {<<"environments", o.id>>}
       /\ UNCHANGED <<text_logs, health_status, alerts, derived>>

\* create_environment up to its db.commit() of the reading
env_commit(c, item) ==
    LET child_id == normalize_child_id(item.child_id)
        o == Environment(Len(environments) + 1, child_id, item.temperature,
                         item.humidity, item.light_lux, item.noise_db)
    IN /\ pc[c] = "idle"
       /\ environments' = Append(environments, o)
       /\ given' = Append(given, item.child_id)
       /\ obj' = [obj EXCEPT ![c] = Reading("environments", o)]
       /\ pc' = [pc EXCEPT ![c] = "temperature"]
       /\ UNCHANGED <<text_logs, health_status, alerts, resp, derived, returned>>

env_temperature(c) ==
    RuleStep(c, "temperature", temperature_rule(alerts, obj[c].row), "humidity")
env_humidity(c) ==
    RuleStep(c, "humidity", humidity_rule(alerts, obj[c].row), "light")
env_light(c) == RuleStep(c, "light", light_rule(alerts, obj[c].row), "noise")
env_noise(c) == RuleStep(c, "noise", noise_rule(alerts, obj[c].row), "return")

\* create_textlog up to its db.commit() of the reading, or its early return
textlog_commit(c, item) ==
    LET text == strip(IF item.content = None THEN <<>> ELSE Val(item.content))
        child_id == normalize_child_id(item.child_id)
        score == IF item.sentiment = None
                 THEN Some(rule_based_sentiment(text))
                 ELSE item.sentiment
        o == TextLog(Len(text_logs) + 1, child_id, text, score)
    IN /\ pc[c] = "idle"
       /\ IF text = <<>>
          THEN /\ resp' = Response("create_textlog", <<item>>, FALSE, "empty text", {})
               /\ UNCHANGED <<dbVars, reqVars>>
          ELSE /\ text_logs' = Append(text_logs, o)
               /\ obj' = [obj EXCEPT ![c] = Reading("text_logs", o)]
               /\ pc' = [pc EXCEPT ![c] = "sentiment"]
               /\ UNCHANGED <<environments, health_status, alerts, given, resp,
                              derived, returned>>

textlog_sentiment(c) ==
    RuleStep(c, "sentiment", analyze_textlog(alerts, obj[c].row), "return")

\* create_health up to its db.commit() of the reading
health_commit(c, item) ==
    LET child_id == normalize_child_id(item.child_id)
        o == HealthStatus(Len(health_status) + 1, child_id, item.heart_rate,
                          item.spo2)
    IN /\ pc[c] = "idle"
       /\ health_status' = Append(health_status, o)
       /\ obj' = [obj EXCEPT ![c] = Reading("health_status", o)]
       /\ pc' = [pc EXCEPT ![c] = "heart_rate"]
       /\ UNCHANGED <<environments, text_logs, alerts, given, resp, derived,
                      returned>>

health_heart_rate(c) ==
    RuleStep(c, "heart_rate", heart_rate_rule(alerts, obj[c].row), "spo2")
health_spo2(c) == RuleStep(c, "spo2", spo2_rule(alerts, obj[c].row), "return")

HandlerOf(table) ==
    IF table = "environments" THEN "create_environment"
    ELSE IF table = "text_logs" THEN "create_textlog" ELSE "create_health"

\* the handler's return statement: the response goes out
return_response(c) ==
    /\ pc[c] = "return"
    /\ resp' = Response(HandlerOf(obj[c].table), <<>>, TRUE, "", {obj[c].row})
    /\ returned' = returned \cup {<<obj[c].table, obj[c].row.id>>}
    /\ pc' = [pc EXCEPT ![c] = "idle"]
    /\ obj' = [obj EXCEPT ![c] = NoReading]
    /\ UNCHANGED <<dbVars, derived>>

\* A step of a POST handler leaves the video threads alone.
Rest(A) == A /\ UNCHANGED <<req, videoVars>>

\* The thread pool hands a new request to an idle worker; the workers are
\* alike, so it is taken to be the first idle one.
Accepts(c) ==
    /\ NumReadings < MaxReadings
    /\ pc[c] = "idle"
    /\ \A k \in Clients : pc[k] = "idle" => c <= k

NextReq ==
    \/ \E c \in Clients, item \in ReqEnvironmentIn :
         Accepts(c) /\ Rest(env_commit(c, item))
    \/ \E c \in Clients : Rest(env_temperature(c))
    \/ \E c \in Clients : Rest(env_humidity(c))
    \/ \E c \in Clients : Rest(env_light(c))
    \/ \E c \in Clients : Rest(env_noise(c))
    \/ \E c \in Clients, item \in ReqTextLogIn :
         Accepts(c) /\ Rest(textlog_commit(c, item))
    \/ \E c \in Clients : Rest(textlog_sentiment(c))
    \/ \E c \in Clients, item \in ReqHealthIn :
         Accepts(c) /\ Rest(health_commit(c, item))
    \/ \E c \in Clients : Rest(health_heart_rate(c))
    \/ \E c \in Clients : Rest(health_spo2(c))
    \/ \E c \in Clients : Rest(return_response(c))
    \/ \E child_id \in {None, Some(C1)} :
         Rest(list_alerts(child_id)) /\ UNCHANGED reqVars

SpecReq == Init /\ [][NextReq]_vars

----------------------------------------------------------------------------
(* SpecVideo: the UDP receiver thread and the /video streamers             *)

\* A numpy array is [shape, pixels]; pixels <<p, z>> is picture p as decoded
\* (z = "raw") or resized (z = "resized").
Array(shape, pixels) == [shape |-> shape, pixels |-> pixels]

OTHER_SIZE == <<480, 640>>

\* What the device sends: a datagram of no bytes, bytes that are no image,
\* picture A as a JPEG of the canonical size, or picture B as a JPEG of another
\* size.
Datagrams ==
    {[kind |-> "empty", image |-> "", shape |-> <<0, 0>>],
     [kind |-> "garbage", image |-> "", shape |-> <<0, 0>>],
     [kind |-> "jpeg", image |-> "A", shape |-> FRAME_SIZE],
     [kind |-> "jpeg", image |-> "B", shape |-> OTHER_SIZE]}

\* cv2.imdecode asserts !buf.empty(): on the array of a datagram of no bytes it
\* raises cv2.error instead of returning None.
imdecode_raises(d) == d.kind = "empty"

\* cv2.imdecode(np.frombuffer(data)): None when the bytes are no image.
imdecode(d) ==
    IF d.kind = "jpeg" THEN Some(Array(d.shape, <<d.image, "raw">>)) ELSE None

\* cv2.resize(a, dsize), dsize = (width, height)
resize(a, dsize) == Array(<<dsize[2], dsize[1]>>, <<a.pixels[1], "resized">>)

\* cv2.imencode(".jpg", a): the bytes, or None when encoding fails
imencode(a) == {Some([kind |-> "jpeg", pixels |-> a.pixels]), None}

_blank_jpeg == [kind |-> "blank", pixels |-> <<"", "">>]

MinOf(S) == CHOOSE r \in S : \A q \in S : r <= q

RefsOf(o) == IF o = None THEN {} ELSE {Val(o)}

StreamerRefs == UNION {RefsOf(frame[s]) : s \in Streamers}

\* The allocator: the streamer s gets its arrays at reference s, the receiver
\* thread at the two references above those of the streamers.
ReceiverRefs == {NumStreamers + 1, NumStreamers + 2}

\* Reference counting: an array nothing refers to is gone.
Collect(h, live) == [r \in Refs |-> IF r \in live THEN h[r] ELSE Free]

imdecode_target_reuse(old, keep) ==
    IF old # None THEN Val(old) ELSE MinOf(ReceiverRefs \ keep)

\* Where imdecode puts its result: a new array on every call
\* (`old` is the array `img` referred to before, `keep` what others refer to).
imdecode_target(old, keep) == MinOf(ReceiverRefs \ keep)

Receiver == <<"receiver", 0>>
Streamer(s) == <<"streamer", s>>

\* while not _stop_flag:
r_while ==
    /\ rpc = "while"
    /\ rpc' = IF _stop_flag THEN "close" ELSE "recvfrom"
    /\ UNCHANGED <<sock, data, img, _stop_flag, _latest_frame, _latest_lock,
                   heap, spc, frame, jpg, published, seen>>

\* data, addr = sock.recvfrom(UDP_RECV_BUFSIZE)
r_recvfrom ==
    /\ rpc = "recvfrom"
    /\ \E d \in Datagrams : data' = d
    /\ rpc' = "imdecode"
    /\ UNCHANGED <<sock, img, _stop_flag, _latest_frame, _latest_lock, heap,
                   spc, frame, jpg, published, seen>>

\* except SocketTimeout: continue
r_timeout ==
    /\ rpc = "recvfrom"
    /\ rpc' = "while"
    /\ UNCHANGED <<sock, data, img, _stop_flag, _latest_frame, _latest_lock,
                   heap, spc, frame, jpg, published, seen>>

\* except Exception: print, sleep, continue
r_error ==
    /\ rpc = "recvfrom"
    /\ rpc' = "while"
    /\ UNCHANGED <<sock, data, img, _stop_flag, _latest_frame, _latest_lock,
                   heap, spc, frame, jpg, published, seen>>

\* img = cv2.imdecode(arr, cv2.IMREAD_COLOR); if img is None: continue
\* Nothing in _udp_receiver catches what imdecode raises: the thread ends there,
\* its locals are dropped and sock.close() is never reached.
r_imdecode ==
    /\ rpc = "imdecode"
    /\ LET a == imdecode(data)
           keep == RefsOf(_latest_frame) \cup StreamerRefs
           r == imdecode_target(img, keep)
       IN IF imdecode_raises(data)
          THEN /\ img' = None
               /\ heap' = Collect(heap, keep)
               /\ rpc' = "died"
          ELSE IF a = None
          THEN /\ img' = None
               /\ heap' = Collect(heap, keep)
               /\ rpc' = "while"
          ELSE /\ img' = Some(r)
               /\ heap' = Collect([heap EXCEPT ![r] = Val(a)], keep \cup {r})
               /\ rpc' = "resize"
    /\ UNCHANGED <<sock, data, _stop_flag, _latest_frame, _latest_lock, spc,
                   frame, jpg, published, seen>>

\* if img.shape differs from FRAME_SIZE: img = cv2.resize(img, (W, H))
r_resize ==
    /\ rpc = "resize"
    /\ LET a == heap[Val(img)]
           keep == RefsOf(_latest_frame) \cup StreamerRefs
           r == MinOf(ReceiverRefs \ keep)
       IN IF a.shape[1] # FRAME_SIZE[1] \/ a.shape[2] # FRAME_SIZE[2]
          THEN /\ img' = Some(r)
               /\ heap' = Collect([heap EXCEPT
                                     ![r] = resize(a, <<FRAME_SIZE[2], FRAME_SIZE[1]>>)],
                                  keep \cup {r})
          ELSE UNCHANGED <<img, heap>>
    /\ rpc' = "acquire"
    /\ UNCHANGED <<sock, data, _stop_flag, _latest_frame, _latest_lock, spc,
                   frame, jpg, published, seen>>

\* with _latest_lock: (enter)
r_acquire ==
    /\ rpc = "acquire"
    /\ _latest_lock = Unlocked
    /\ _latest_lock' = Receiver
    /\ rpc' = "assign"
    /\ UNCHANGED <<sock, data, img, _stop_flag, _latest_frame, heap, spc,
                   frame, jpg, published, seen>>

\* _latest_frame = img
r_assign ==
    /\ rpc = "assign"
    /\ _latest_frame' = img
    /\ heap' = Collect(heap, RefsOf(img) \cup StreamerRefs)
    /\ published' = Some(heap[Val(img)])
    /\ rpc' = "release"
    /\ UNCHANGED <<sock, data, img, _stop_flag, _latest_lock, spc, frame, jpg,
                   seen>>

\* with _latest_lock: (leave)
r_release ==
    /\ rpc = "release"
    /\ _latest_lock' = Unlocked
    /\ rpc' = "while"
    /\ UNCHANGED <<sock, data, img, _stop_flag, _latest_frame, heap, spc,
                   frame, jpg, published, seen>>

\* sock.close()
r_close ==
    /\ rpc = "close"
    /\ sock' = "closed"
    /\ rpc' = "stopped"
    /\ UNCHANGED <<data, img, _stop_flag, _latest_frame, _latest_lock, heap,
                   spc, frame, jpg, published, seen>>

_on_shutdown ==
    /\ ~_stop_flag
    /\ _stop_flag' = TRUE
    /\ UNCHANGED <<sock, rpc, data, img, _latest_frame, _latest_lock, heap,
                   spc, frame, jpg, published, seen>>

\* with _latest_lock: (enter)
s_acquire(s) ==
    /\ spc[s] = "acquire"
    /\ _latest_lock = Unlocked
    /\ _latest_lock' = Streamer(s)
    /\ spc' = [spc EXCEPT ![s] = "copy"]
    /\ UNCHANGED <<sock, rpc, data, img, _stop_flag, _latest_frame, heap,
                   frame, jpg, published, seen>>

snapshot_target_alias(s, lf) == Val(lf)

\* Where _latest_frame.copy() puts its result: a new array of streamer s.
snapshot_target(s, lf) == s

\* frame = None if _latest_frame is None else _latest_frame.copy()
s_copy(s) ==
    /\ spc[s] = "copy"
    /\ LET others == UNION {RefsOf(frame[q]) : q \in Streamers \ {s}}
           keep == RefsOf(_latest_frame) \cup RefsOf(img) \cup others
       IN IF _latest_frame = None
          THEN /\ frame' = [frame EXCEPT ![s] = None]
               /\ heap' = Collect(heap, keep)
          ELSE LET r == snapshot_target(s, _latest_frame)
               IN /\ frame' = [frame EXCEPT ![s] = Some(r)]
                  /\ heap' = Collect([heap EXCEPT ![r] = heap[Val(_latest_frame)]],
                                     keep \cup {r})
    /\ seen' = [seen EXCEPT ![s] = published]
    /\ spc' = [spc EXCEPT ![s] = "release"]
    /\ UNCHANGED <<sock, rpc, data, img, _stop_flag, _latest_frame,
                   _latest_lock, jpg, published>>

\* with _latest_lock: (leave)
s_release(s) ==
    /\ spc[s] = "release"
    /\ _latest_lock' = Unlocked
    /\ spc' = [spc EXCEPT ![s] = "yield"]
    /\ UNCHANGED <<sock, rpc, data, img, _stop_flag, _latest_frame, heap,
                   frame, jpg, published, seen>>

\* jpg = _encode_jpeg(frame) if frame is not None else blank; None -> blank;
\* yield boundary + header + jpg + b"\r\n"; time.sleep(0.03)
s_yield(s) ==
    /\ spc[s] = "yield"
    /\ \E e \in (IF frame[s] = None THEN {Some(_blank_jpeg)}
                 ELSE imencode(heap[Val(frame[s])])) :
         jpg' = [jpg EXCEPT ![s] = IF e = None THEN _blank_jpeg ELSE Val(e)]
    /\ spc' = [spc EXCEPT ![s] = "acquire"]
    /\ UNCHANGED <<sock, rpc, data, img, _stop_flag, _latest_frame,
                   _latest_lock, heap, frame, published, seen>>

\* A step of the video threads leaves the REST side alone.
Video(A) == A /\ UNCHANGED <<dbVars, req, resp, reqVars>>

NextVideo ==
    \/ Video(r_while)
    \/ Video(r_recvfrom)
    \/ Video(r_timeout)
    \/ Video(r_error)
    \/ Video(r_imdecode)
    \/ Video(r_resize)
    \/ Video(r_acquire)
    \/ Video(r_assign)
    \/ Video(r_release)
    \/ Video(r_close)
    \/ Video(_on_shutdown)
    \/ \E s \in Streamers : Video(s_acquire(s))
    \/ \E s \in Streamers : Video(s_copy(s))
    \/ \E s \in Streamers : Video(s_release(s))
    \/ \E s \in Streamers : Video(s_yield(s))

SpecVideo == Init /\ [][NextVideo]_vars

\* SpecVideoFair: the receiver thread keeps running. recvfrom returns within
\* its one-second timeout with a datagram, a timeout or an error; a thread that
\* holds the lock leaves it (nothing blocks inside `with _latest_lock`); and the
\* receiver gets the lock in the end, since every streamer sleeps outside the
\* lock between two snapshots. A streamer is only resumed when its client
\* reads, and shutdown need not happen: neither is required.
ReceiverStep ==
    \/ Video(r_while)
    \/ Video(r_recvfrom)
    \/ Video(r_timeout)
    \/ Video(r_error)
    \/ Video(r_imdecode)
    \/ Video(r_resize)
    \/ Video(r_assign)
    \/ Video(r_release)
    \/ Video(r_close)

FairVideo ==
    /\ WF_vars(ReceiverStep)
    /\ SF_vars(Video(r_acquire))
    /\ \A s \in Streamers : WF_vars(Video(s_copy(s)) \/ Video(s_release(s)))

SpecVideoFair == SpecVideo /\ FairVideo

----------------------------------------------------------------------------
(* Properties of the rule engine (SpecRules)                               *)

\* The alerts a step has added to the alerts table.
NewAlerts == {alerts'[i] : i \in (Len(alerts) + 1)..Len(alerts')}

Titled(S, title) == {a \in S : a.title = title}

\* C1: for a posted environment reading with a non-null temperature t, a
\* temperature alert of level critical is created iff t < 14 or t > 31, one of
\* level warn iff 14 <= t < 16 or 29 < t <= 31, and none iff 16 <= t <= 29.
C1_TemperatureLevels ==
    [][(req.op = "create_environment" /\ req.item.temperature # None) =>
        LET t == Val(req.item.temperature)
            made == Titled(NewAlerts, TITLE_TEMPERATURE)
        IN /\ Cardinality(made) <= 1
           /\ (\E a \in made : a.level = "critical")
                <=> (t < Real(14) \/ t > Real(31))
           /\ (\E a \in made : a.level = "warn")
                <=> ((Real(14) <= t /\ t < Real(16)) \/ (Real(29) < t /\ t <= Real(31)))
           /\ (made = {}) <=> (Real(16) <= t /\ t <= Real(29))
           /\ \A a \in made : a.level \in {"critical", "warn"}]_vars

\* A reading of exactly 31.0 was posted and produced a warn temperature alert.
C1_Witness ==
    /\ resp.op = "create_environment"
    /\ \E o \in resp.rows : o.temperature = Some(Real(31))
    /\ \E a \in Rows(alerts) : a.title = TITLE_TEMPERATURE /\ a.level = "warn"

\* C4: for a posted health reading with a non-null spO2 s, a low-blood-oxygen
\* alert of level critical is created iff s < 90, one of level warn iff
\* 90 <= s < 94, and none iff s >= 94.
C4_Spo2Levels ==
    [][(req.op = "create_health" /\ req.item.spo2 # None) =>
        LET s == Val(req.item.spo2)
            made == Titled(NewAlerts, TITLE_SPO2)
        IN /\ Cardinality(made) <= 1
           /\ (\E a \in made : a.level = "critical") <=> (s < Real(90))
           /\ (\E a \in made : a.level = "warn") <=> (Real(90) <= s /\ s < Real(94))
           /\ (made = {}) <=> (s >= Real(94))
           /\ \A a \in made : a.level \in {"critical", "warn"}]_vars

\* A reading of exactly 90.0 was posted and produced a warn spO2 alert.
C4_Witness ==
    /\ resp.op = "create_health"
    /\ \E o \in resp.rows : o.spo2 = Some(Real(90))
    /\ \E a \in Rows(alerts) : a.title = TITLE_SPO2 /\ a.level = "warn"

One(b) == IF b THEN 1 ELSE 0

\* C5: a POST /api/environment creates exactly one alert per field that is
\* present and violates its rule (temperature <16 or >29, humidity <30 or >75,
\* light <50, noise >65), none for a null field, each with source environment
\* and the stored reading's subject id; temperature 32 alone gives exactly one
\* alert, of level critical.
C5_OneAlertPerViolatingField ==
    [][req.op = "create_environment" =>
        LET i == req.item
            row == environments'[Len(environments')]
            bad_t == i.temperature # None
                     /\ (Val(i.temperature) < Real(16) \/ Val(i.temperature) > Real(29))
            bad_h == i.humidity # None
                     /\ (Val(i.humidity) < Real(30) \/ Val(i.humidity) > Real(75))
            bad_l == i.light_lux # None /\ Val(i.light_lux) < Real(50)
            bad_n == i.noise_db # None /\ Val(i.noise_db) > Real(65)
        IN /\ Len(environments') = Len(environments) + 1
           /\ Cardinality(Titled(NewAlerts, TITLE_TEMPERATURE)) = One(bad_t)
           /\ Cardinality(Titled(NewAlerts, TITLE_HUMIDITY)) = One(bad_h)
           /\ Cardinality(Titled(NewAlerts, TITLE_LIGHT)) = One(bad_l)
           /\ Cardinality(Titled(NewAlerts, TITLE_NOISE)) = One(bad_n)
           /\ Cardinality(NewAlerts)
                = One(bad_t) + One(bad_h) + One(bad_l) + One(bad_n)
           /\ \A a \in NewAlerts :
                a.source = "environment" /\ a.child_id = row.child_id
           /\ (i.temperature = Some(Real(32)) /\ i.humidity = None
               /\ i.light_lux = None /\ i.noise_db = None)
                => \E a \in NewAlerts : NewAlerts = {a} /\ a.level = "critical"]_vars

\* A reading violating all four rules was posted and four alerts were stored.
C5_Witness ==
    /\ resp.op = "create_environment"
    /\ \E o \in resp.rows :
         /\ o.temperature = Some(Real(32)) /\ o.humidity = Some(Real(30) - 1)
         /\ o.light_lux = Some(Real(50) - 1) /\ o.noise_db = Some(Real(80) + 1)
    /\ Len(alerts) = 4

HasNeg(text) == \E w \in neg : Contains(text, w)
HasPos(text) == \E w \in pos : Contains(text, w)

\* C6: a POST /api/textlog with non-blank content and no explicit sentiment
\* stores sentiment -0.6 for a negative keyword without a positive one, +0.6
\* for a positive keyword without a negative one, and 0 otherwise (always in
\* [-1.0, 1.0]); it creates exactly one alert, level warn and source text, when
\* the stored sentiment is <= -0.5 and no alert otherwise.
C6_SentimentAndMoodAlert ==
    [][(/\ req.op = "create_textlog"
        /\ req.item.sentiment = None
        /\ req.item.content # None
        /\ strip(Val(req.item.content)) # <<>>) =>
        LET text == Val(req.item.content)
            row == text_logs'[Len(text_logs')]
            want == IF HasNeg(text) /\ ~HasPos(text) THEN 0 - 6
                    ELSE IF HasPos(text) /\ ~HasNeg(text) THEN 6 ELSE 0
        IN /\ Len(text_logs') = Len(text_logs) + 1
           /\ row.sentiment = Some(want)
           /\ 0 - 10 <= Val(row.sentiment) /\ Val(row.sentiment) <= 10
           /\ IF Val(row.sentiment) <= 0 - 5
              THEN \E a \in NewAlerts :
                     /\ NewAlerts = {a}
                     /\ a.level = "warn" /\ a.source = "text"
              ELSE NewAlerts = {}]_vars

\* A text with both a negative and a positive keyword was scored 0, no alert.
C6_Witness ==
    /\ resp.op = "create_textlog"
    /\ resp.ok
    /\ \E o \in resp.rows :
         /\ o.content = <<"nan", "guo", "kai", "xin">>
         /\ o.sentiment = Some(0)
    /\ resp.arg[1].sentiment = None
    /\ alerts = <<>>

----------------------------------------------------------------------------
(* Properties of the stored tables under sequences of requests (Spec)      *)

NoSubject(child_id) == child_id = None \/ strip(Val(child_id)) = <<>>

WrittenWhere(P(_)) ==
    {environments[i] : i \in {j \in 1..Len(environments) : P(given[j])}}

TrimsToDefault(child_id) ==
    child_id # None /\ strip(Val(child_id)) = DEFAULT_CHILD_ID

NoSubjectOrDefault(child_id) == NoSubject(child_id) \/ TrimsToDefault(child_id)

\* C7 as stated: GET /api/environment without a subject id returns exactly the
\* readings written without an explicit subject id (absent, or blank after trim).
C7_Original ==
    (resp.op = "list_environment" /\ NoSubject(resp.arg))
        => resp.rows = WrittenWhere(NoSubject)

\* C7 amended: GET /api/environment without a subject id returns exactly the
\* readings stored under the default identifier: those written without a
\* subject id (absent, or blank after trim) and those written with a subject
\* id that trims to the default identifier itself.
C7_DefaultListing ==
    (resp.op = "list_environment" /\ NoSubject(resp.arg))
        => /\ resp.rows = WrittenWhere(NoSubjectOrDefault)
           /\ WrittenWhere(NoSubject) \subseteq resp.rows

\* A listing without subject id that returned a reading written with a blank
\* id while a reading written for another subject was left out.
C7_Witness ==
    /\ resp.op = "list_environment"
    /\ resp.arg = None
    /\ Len(environments) = 2
    /\ given[1] = Some(<<" ">>)
    /\ given[2] = Some(C1)
    /\ resp.rows = {environments[1]}

\* C8: POST /api/alerts/{id}/ack with an id that matches no stored alert
\* returns the not-found result (ok = false) and leaves every stored alert,
\* acknowledged flags included, unchanged.
C8_AckMissingIsNotFound ==
    [][(resp'.op = "ack_alert"
        /\ \A i \in 1..Len(alerts) : <<alerts[i].id>> # resp'.arg) =>
        /\ resp'.ok = FALSE
        /\ resp'.msg = "not found"
        /\ alerts' = alerts]_vars

\* An ack of a missing id was answered not-found while alerts are stored.
C8_Witness ==
    /\ resp.op = "ack_alert"
    /\ resp.arg = <<Len(alerts) + 1>>
    /\ ~resp.ok
    /\ \E i \in 1..Len(alerts) : alerts[i].acknowledged

\* C9: every alert is created unacknowledged; the only change any operation
\* makes to a stored alert is that an ack of its id sets its acknowledged flag
\* to true, leaving its other fields and all other alerts unchanged; a flag
\* never goes from true back to false.
C9_AcknowledgedOnlyMutableField ==
    [][/\ Len(alerts') >= Len(alerts)
       /\ \A i \in (Len(alerts) + 1)..Len(alerts') : alerts'[i].acknowledged = FALSE
       /\ \A i \in 1..Len(alerts) :
            \/ alerts'[i] = alerts[i]
            \/ /\ resp'.op = "ack_alert"
               /\ resp'.arg = <<i>>
               /\ alerts'[i] = [alerts[i] EXCEPT !.acknowledged = TRUE]
       /\ \A i \in 1..Len(alerts) :
            (resp'.op = "ack_alert" /\ resp'.arg = <<i>>)
                => alerts'[i].acknowledged = TRUE
       /\ \A i \in 1..Len(alerts) :
            alerts[i].acknowledged => alerts'[i].acknowledged]_vars

\* One alert has been acknowledged and another one is still unacknowledged.
C9_Witness ==
    /\ resp.op = "ack_alert"
    /\ resp.ok
    /\ \E i, j \in 1..Len(alerts) :
         /\ resp.arg = <<i>>
         /\ alerts[i].acknowledged
         /\ ~alerts[j].acknowledged

----------------------------------------------------------------------------
(* Order of events inside the POST handlers (SpecReq)                      *)

TableOf(table) ==
    IF table = "environments" THEN environments
    ELSE IF table = "text_logs" THEN text_logs ELSE health_status

SourceOf(table) ==
    IF table = "environments" THEN "environment"
    ELSE IF table = "text_logs" THEN "text" ELSE "health"

Stored(r) == TableOf(r[1])[r[2]]

\* How many rules of section 4.4 the stored reading r violates.
Violations(r) ==
    LET o == Stored(r)
    IN IF r[1] = "environments"
       THEN One(o.temperature # None
                /\ (Val(o.temperature) < Real(16) \/ Val(o.temperature) > Real(29)))
            + One(o.humidity # None
                  /\ (Val(o.humidity) < Real(30) \/ Val(o.humidity) > Real(75)))
            + One(o.light_lux # None /\ Val(o.light_lux) < Real(50))
            + One(o.noise_db # None /\ Val(o.noise_db) > Real(65))
       ELSE IF r[1] = "text_logs"
       THEN One(o.sentiment # None /\ Val(o.sentiment) <= 0 - 5)
       ELSE One(o.heart_rate # None
                /\ (Val(o.heart_rate) < 55 \/ Val(o.heart_rate) > 130))
            + One(o.spo2 # None /\ Val(o.spo2) < Real(94))

AlertsOf(r) == {i \in 1..Len(alerts) : derived[i] = r}

Evaluating(c) ==
    pc[c] \in {"temperature", "humidity", "light", "noise", "sentiment",
               "heart_rate", "spo2"}

C10_State ==
    /\ Len(derived) = Len(alerts)
    /\ \A i \in 1..Len(alerts) :
         /\ derived[i][2] \in 1..Len(TableOf(derived[i][1]))
         /\ alerts[i].source = SourceOf(derived[i][1])
         /\ alerts[i].child_id = Stored(derived[i]).child_id
    /\ \A r \in returned : Cardinality(AlertsOf(r)) = Violations(r)
    /\ resp.op = "list_alerts" =>
         \A r \in returned :
            Stored(r).child_id = normalize_child_id(resp.arg)
                => \A i \in AlertsOf(r) : alerts[i] \in resp.rows

C10_Step ==
    Len(alerts') > Len(alerts) =>
        \E c \in Clients :
            /\ Evaluating(c)
            /\ pc'[c] # pc[c]
            /\ <<obj[c].table, obj[c].row.id>> \notin returned
            /\ obj[c].row.id \in 1..Len(TableOf(obj[c].table))
            /\ Stored(<<obj[c].table, obj[c].row.id>>) = obj[c].row

\* C10: in every POST /api/environment, /api/textlog and /api/health the
\* reading is committed first, then every alert derived from it is persisted,
\* and only then the response is returned: the alerts of a reading whose
\* response has been returned are all stored and are in any later
\* GET /api/alerts of its subject, and an alert is only ever created by the
\* evaluation of a committed reading whose response is still outstanding.
C10_CommitThenAlertsThenResponse == []C10_State /\ [][C10_Step]_vars

\* A listing that holds both alerts of an answered reading, taken while
\* another client's reading is still being evaluated.
C10_Witness ==
    /\ resp.op = "list_alerts"
    /\ \E r \in returned :
         /\ Violations(r) = 2
         /\ Stored(r).child_id = normalize_child_id(resp.arg)
         /\ {alerts[i] : i \in AlertsOf(r)} \subseteq resp.rows
         /\ Cardinality(AlertsOf(r)) = 2
    /\ \E c \in Clients : Evaluating(c)

----------------------------------------------------------------------------
(* Properties of the frame cache (SpecVideo)                               *)

\* What a reference shows: None, or the array it refers to.
Content(o) == IF o = None THEN None ELSE Some(heap[Val(o)])

\* C2: the cache is empty iff no publish has completed and otherwise holds the
\* frame of the most recently completed publish, and the snapshot a streamer
\* takes under the lock is empty iff no publish has completed and otherwise a
\* copy equal to that frame (after publish(A), publish(B): B).
C2_SnapshotIsLastPublish ==
    /\ Content(_latest_frame) = published
    /\ \A s \in Streamers : spc[s] = "release" => Content(frame[s]) = published

\* A snapshot that returned B after A had been published (and snapshot) before.
C2_Witness ==
    \E s, q \in Streamers :
        /\ spc[s] = "release"
        /\ frame[s] # None
        /\ heap[Val(frame[s])].pixels = <<"B", "resized">>
        /\ frame[q] # None
        /\ heap[Val(frame[q])].pixels = <<"A", "raw">>

\* C3: from its snapshot until the chunk is emitted, the frame a streamer holds
\* is empty or an array of its own (not the cache's, the receiver's or another
\* streamer's) whose contents are exactly the frame that was published when
\* the snapshot was taken, whatever the receiver and the other streamers do
\* meanwhile.
C3_StreamerHoldsWholeCopy ==
    \A s \in Streamers :
        spc[s] \in {"release", "yield"} =>
            /\ Content(frame[s]) = seen[s]
            /\ frame[s] # None =>
                 /\ frame[s] # _latest_frame
                 /\ frame[s] # img
                 /\ \A q \in Streamers \ {s} : frame[q] # frame[s]

\* A streamer about to emit A although B has been published since, while
\* another streamer holds its snapshot of B.
C3_Witness ==
    \E s, q \in Streamers :
        /\ spc[s] = "yield"
        /\ seen[s] # None
        /\ Val(seen[s]).pixels = <<"A", "raw">>
        /\ Content(frame[s]) = seen[s]
        /\ published # seen[s]
        /\ spc[q] = "release"
        /\ Content(frame[q]) = published

----------------------------------------------------------------------------
(* Properties of the receiver loop (SpecVideoFair)                         *)

\* The receiver thread has left _udp_receiver.
Exited == rpc \in {"stopped", "died"}

\* A receive timeout: recvfrom raised SocketTimeout and the loop continues.
TimeoutStep == rpc = "recvfrom" /\ rpc' = "while"

C11_Stops == _stop_flag ~> (rpc = "stopped" /\ sock = "closed")

C11_TimeoutChangesNothing ==
    [][TimeoutStep =>
         UNCHANGED <<sock, data, img, _stop_flag, _latest_frame, _latest_lock,
                     heap, spc, frame, jpg, published, seen>>]_vars

C11_ExitReleases == [](Exited => sock = "closed")

\* C11: once shutdown has set the stop signal the receiver eventually leaves
\* its receive loop and closes its socket, whatever recvfrom returns meanwhile
\* (datagrams, timeouts, errors); a receive timeout changes no state and only
\* leads back to the test of the stop signal; and whenever the receiver has
\* exited, its socket has been closed.
C11_ShutdownStopsReceiver ==
    /\ C11_Stops
    /\ C11_TimeoutChangesNothing
    /\ C11_ExitReleases

----------------------------------------------------------------------------
(* Properties of the datagram decoding (SpecVideo)                         *)

\* The receiver handles a datagram that is not a decodable image.
DropStep == rpc = "imdecode" /\ data.kind # "jpeg" /\ rpc' # rpc

C12_Dropped ==
    [][DropStep =>
         /\ _latest_frame' = _latest_frame
         /\ Content(_latest_frame)' = Content(_latest_frame)
         /\ rpc' = "while"]_vars

C12_OnlyCanonicalFrames ==
    [](_latest_frame # None =>
         /\ heap[Val(_latest_frame)].shape = FRAME_SIZE
         /\ heap[Val(_latest_frame)].pixels[1] \in {"A", "B"})

C12_ReceiverAlive == [](rpc # "died")

\* C12: a datagram that does not decode to an image is dropped: the frame
\* cache keeps the frame (or empty) it held, the receiver does not terminate
\* but is back at the top of its loop, where the next decodable datagram is
\* received and published as before; and the cache only ever holds a decoded
\* picture of the canonical size.
C12_UndecodableDropped ==
    /\ C12_Dropped
    /\ C12_OnlyCanonicalFrames
    /\ C12_ReceiverAlive

====
